---------------------------- MODULE Spec2Model ----------------------------
(***************************************************************************)
(* Model of SimpleScoringService                                           *)
(* (src/futurproctor/proctoring/services/simple_scoring.py) over the       *)
(* CompetencyScore, CheatingEvent and Exam tables.                         *)
(*                                                                         *)
(* Encodings.  A percentage is kept in tenths of a percent (625 = 62.5%);  *)
(* every percentage the grader can produce (k/5, k/2, k/8 of 100) is a     *)
(* whole number of tenths and the float the code computes is that number   *)
(* exactly.  A priority score is kept in thousandths, a severity in        *)
(* hundredths.  A percentile is the exact fraction <<num, den>>.  NULL for *)
(* rank is 0 and for percentile <<0, 0>>.                                  *)
(***************************************************************************)
EXTENDS Integers, Sequences, FiniteSets, TLC

VARIABLES
    rows,        \* CompetencyScore table, in primary-key order
    nextId,      \* next primary key of CompetencyScore
    correctIds,  \* ids of the questions whose submitted answer equals the key
    events,      \* CheatingEvent rows of the exam's student, in pk order
    ret,         \* what the last call of the service returned or raised
    lastWriter,  \* which entry point wrote the exam's rows last
    exams,       \* Exam table: id -> row
    svcExam,     \* self.exam: the Exam object the service was constructed with
    pc,          \* concurrent invocations: position of each one
    created,     \* concurrent invocations: created_scores of each one
    todo,        \* concurrent invocations: what each has still to write
    overlapped   \* concurrent invocations: did the two ever run interleaved

vars == <<rows, nextId, correctIds, events, ret, lastWriter, exams, svcExam,
          pc, created, todo, overlapped>>

scoringVars == <<rows, nextId, correctIds, events, lastWriter>>
rankingVars == <<exams, svcExam>>
concVars    == <<pc, created, todo, overlapped>>

---------------------------------------------------------------------------
(* Bounds of the model *)

\* a student misses at most this many questions of a competency, or all of them
MaxMissed == 2
\* calls of the scoring entry points in one behaviour (caps the primary keys)
MaxRuns == 2
\* exams in the Exam table
NumExams == 3
\* total scores run over 0..MaxScore
MaxScore == 1

---------------------------------------------------------------------------
(* Class constants *)

CompOrder == <<"critical_thinking", "communication", "adaptability",
               "basic_engineering", "technical">>

MARKS == [critical_thinking |-> 4, communication |-> 2, adaptability |-> 1,
          basic_engineering |-> 5, technical |-> 6]

MAX_SCORES == [critical_thinking |-> 20, communication |-> 10, adaptability |-> 2,
               basic_engineering |-> 25, technical |-> 48]

\* in hundredths
COMPETENCY_WEIGHTS == [critical_thinking |-> 30, communication |-> 20,
                       adaptability |-> 10, basic_engineering |-> 30,
                       technical |-> 50]

\* the "priority" tier of COURSE_MAPPING
PRIORITY_COURSES ==
    [critical_thinking |-> <<"Critical Thinking Bootcamp", "Problem Solving Workshops">>,
     communication     |-> <<"Technical Writing Essentials", "Presentation Skills">>,
     adaptability      |-> <<"Change Management Fundamentals">>,
     basic_engineering |-> <<"Engineering Fundamentals Refresher">>,
     technical         |-> <<"Field-specific Technical Foundations">>]

\* the "complementary" tier of COURSE_MAPPING
COMPLEMENTARY_COURSES ==
    [critical_thinking |-> <<"Decision Making for Engineers">>,
     communication     |-> <<"Interpersonal Communication">>,
     adaptability      |-> <<"Time & Priority Management">>,
     basic_engineering |-> <<"Materials & Manufacturing Basics">>,
     technical         |-> <<"Applied Technical Projects">>]

\* the "advanced" tier of COURSE_MAPPING
ADVANCED_COURSES ==
    [critical_thinking |-> <<"Advanced Systems Thinking">>,
     communication     |-> <<"Professional Communication for Leaders">>,
     adaptability      |-> <<"Leadership Agility Program">>,
     basic_engineering |-> <<"Advanced Engineering Design">>,
     technical         |-> <<"Specialization / Capstone Projects">>]

\* dict.get(key, default)
DictGet(d, key, default) == IF key \in DOMAIN d THEN d[key] ELSE default

\* the one exam the service is bound to, and another exam of the same table
TheExam == "exam_1"
OtherExam == "exam_2"

---------------------------------------------------------------------------
(* Python list helpers *)

Range(s) == {s[i] : i \in DOMAIN s}

Take(s, n) == SubSeq(s, 1, IF Len(s) < n THEN Len(s) ELSE n)

LastN(s, n) == SubSeq(s, IF Len(s) > n THEN Len(s) - n + 1 ELSE 1, Len(s))

\* sorted(s, key=...): stable, ascending; key[i] is the key of s[i]
SortAsc(s, key) ==
    LET pos == [i \in DOMAIN s |->
                   1 + Cardinality({j \in DOMAIN s :
                           \/ key[j] < key[i]
                           \/ key[j] = key[i] /\ j < i})]
    IN  [p \in DOMAIN s |-> s[CHOOSE i \in DOMAIN s : pos[i] = p]]

\* s.sort(key=..., reverse=True): descending, equal keys keep their order
SortDesc(s, key) ==
    LET pos == [i \in DOMAIN s |->
                   1 + Cardinality({j \in DOMAIN s :
                           \/ key[j] > key[i]
                           \/ key[j] = key[i] /\ j < i})]
    IN  [p \in DOMAIN s |-> s[CHOOSE i \in DOMAIN s : pos[i] = p]]

\* list(dict.fromkeys(s)): duplicates removed, first occurrence kept
Dedup(s) ==
    LET keep == {i \in DOMAIN s : \A j \in DOMAIN s : j < i => s[j] # s[i]}
        F[i \in 0..Len(s)] ==
            IF i = 0 THEN <<>>
            ELSE IF i \in keep THEN Append(F[i - 1], s[i]) ELSE F[i - 1]
    IN  F[Len(s)]

\* concatenation of a sequence of sequences
Flatten(ss) ==
    LET F[i \in 0..Len(ss)] == IF i = 0 THEN <<>> ELSE F[i - 1] \o ss[i]
    IN  F[Len(ss)]

Max(a, b) == IF a > b THEN a ELSE b
Min(a, b) == IF a < b THEN a ELSE b

---------------------------------------------------------------------------
(* The CompetencyScore table *)

\* CompetencyScore.objects.filter(exam=e), in table order
FilterExam(t, e) == SelectSeq(t, LAMBDA r : r.exam = e)

\* the delete left out
DeleteNothing(t, e) == t

\* CompetencyScore.objects.filter(exam=e).delete()
DeleteExam(t, e) == SelectSeq(t, LAMBDA r : r.exam # e)

\* percentage = (raw_score / max_score * 100) if max_score > 0 else 0, capped 0-100
Percentage(raw_score, max_score) ==
    IF max_score > 0
    THEN Max(0, Min(1000, (raw_score * 1000) \div max_score))
    ELSE 0

PerformanceLevel(percentage) ==
    IF percentage >= 850 THEN "advanced"
    ELSE IF percentage >= 700 THEN "proficient"
    ELSE IF percentage >= 500 THEN "developing"
    ELSE IF percentage >= 300 THEN "emerging"
    ELSE "novice"

\* the object CompetencyScore.objects.create(...) builds and inserts
NewScore(id, e, competency_name, raw_score) ==
    LET max_score  == DictGet(MAX_SCORES, competency_name, 0)
        percentage == Percentage(raw_score, max_score)
    IN  [id |-> id, exam |-> e, competency_name |-> competency_name,
         raw_score |-> raw_score, max_score |-> max_score,
         percentage |-> percentage,
         performance_level |-> PerformanceLevel(percentage),
         is_strength |-> FALSE, is_weakness |-> FALSE]

\* INSERT of a created object: the table declares no uniqueness over
\* (exam, competency_name), so a second row of a competency is stored
InsertRow(t, r) == Append(t, r)

\* .update(is_strength=False, is_weakness=False) on the exam's rows
ResetFlags(t, e) ==
    [i \in DOMAIN t |->
        IF t[i].exam = e
        THEN [t[i] EXCEPT !.is_strength = FALSE, !.is_weakness = FALSE]
        ELSE t[i]]

HasRow(t, id) == \E i \in DOMAIN t : t[i].id = id

\* c.<field> = True; c.save(update_fields=[field]): UPDATE ... WHERE pk = c.pk
SaveFlag(t, id, field) ==
    [i \in DOMAIN t |->
        IF t[i].id = id THEN [t[i] EXCEPT ![field] = TRUE] ELSE t[i]]

\* the saves of the loop "for c in objs: c.<field> = True; c.save(...)", every
\* object being a row of the table
SaveFlags(t, objs, field) ==
    LET ids == {objs[k].id : k \in DOMAIN objs}
    IN  [i \in DOMAIN t |->
            IF t[i].id \in ids THEN [t[i] EXCEPT ![field] = TRUE] ELSE t[i]]

\* key=lambda x: x.percentage
PctOf(cs) == [i \in DOMAIN cs |-> cs[i].percentage]

---------------------------------------------------------------------------
(* identify_strengths_weaknesses *)

\* strengths[:2], given comp_scores sorted by percentage descending
StrengthsNoFallback(sorted) ==
    Take(SelectSeq(sorted, LAMBDA c : c.percentage >= 750), 2)

Strengths(sorted) ==
    LET strengths == SelectSeq(sorted, LAMBDA c : c.percentage >= 750)
    IN  Take(IF Len(strengths) < 2 THEN Take(sorted, 2) ELSE strengths, 2)

\* weaknesses[:2], given comp_scores sorted by percentage descending
Weaknesses(sorted) ==
    LET bottom_sorted == SortAsc(sorted, PctOf(sorted))
        weaknesses    == SelectSeq(bottom_sorted, LAMBDA c : c.percentage < 600)
    IN  Take(IF Len(weaknesses) < 2 THEN Take(bottom_sorted, 2) ELSE weaknesses, 2)

\* the table after identify_strengths_weaknesses(comp_scores) of the service of
\* exam e, every object of comp_scores being a row of the table
IdentifyStrengthsWeaknesses(t, e, comp_scores) ==
    IF comp_scores = <<>> THEN t
    ELSE LET sorted == SortDesc(comp_scores, PctOf(comp_scores))
             t1 == ResetFlags(t, e)
             t2 == SaveFlags(t1, Strengths(sorted), "is_strength")
         IN  SaveFlags(t2, Weaknesses(sorted), "is_weakness")

---------------------------------------------------------------------------
(* save_competency_breakdown *)

\* the objects the loop over competency_scores.items() creates; items is the
\* dict as a sequence of <<name, raw_score>>
CreatedScores(id0, e, items) ==
    [i \in DOMAIN items |-> NewScore(id0 + i - 1, e, items[i][1], items[i][2])]

SaveWithoutDelete(t, id0, e, items) ==
    LET created_scores == CreatedScores(id0, e, items)
    IN  IdentifyStrengthsWeaknesses(t \o created_scores, e, created_scores)

SaveCompetencyBreakdown(t, id0, e, items) ==
    LET created_scores == CreatedScores(id0, e, items)
    IN  IdentifyStrengthsWeaknesses(DeleteExam(t, e) \o created_scores, e,
                                    created_scores)

---------------------------------------------------------------------------
(* The exam's data: questions, answers, violation events *)

\* the paper the class constants assume (5, 5, 2, 5 and 8 questions of the five
\* competencies), followed by a question with an unknown competency tag and a
\* question with no tag (q.get('competency_type') is None)
QuestionTags ==
    [i \in 1..27 |->
        IF i <= 5 THEN "critical_thinking"
        ELSE IF i <= 10 THEN "communication"
        ELSE IF i <= 12 THEN "adaptability"
        ELSE IF i <= 17 THEN "basic_engineering"
        ELSE IF i <= 25 THEN "technical"
        ELSE IF i = 26 THEN "soft_skills"
        ELSE "None"]

Questions == [i \in DOMAIN QuestionTags |-> [id |-> i, competency_type |-> QuestionTags[i]]]

AllTags == Range(QuestionTags)

TagIds(tag) == {i \in DOMAIN QuestionTags : QuestionTags[i] = tag}

\* the first k questions of a set of question ids
FirstK(S, k) == {i \in S : Cardinality({j \in S : j < i}) < k}

\* the answer sets enumerated: of each tag the student gets wrong at most
\* MaxMissed questions, or all of them
AnswerSets ==
    { UNION { FirstK(TagIds(t),
                     IF m[t] > MaxMissed THEN 0
                     ELSE Max(0, Cardinality(TagIds(t)) - m[t])) : t \in AllTags }
      : m \in [AllTags -> 0..(MaxMissed + 1)] }

\* those in which only questions of the five competencies are answered correctly
KnownAnswerSets ==
    { a \in AnswerSets : a \subseteq UNION {TagIds(c) : c \in Range(CompOrder)} }

Event(event_type, tab_switch_count) ==
    [event_type |-> event_type, tab_switch_count |-> tab_switch_count]

\* the violation histories enumerated
EventScenarios ==
    { <<>>,
      <<Event("multiple_persons", 4), Event("object_detected", 0)>>,
      <<Event("multiple_persons", 0), Event("object_detected", 4)>>,
      <<Event("gaze_detected", 6), Event("screenshot", 0), Event("audio_detected", 0),
        Event("gaze_detected", 0)>> }

---------------------------------------------------------------------------
(* calculate_violation_deduction *)

\* in hundredths
VIOLATION_WEIGHTS == [multiple_persons |-> 30, object_detected |-> 25,
                      audio_detected |-> 15, gaze_detected |-> 10]

Severity(violations) ==
    LET F[i \in 0..Len(violations)] ==
            IF i = 0 THEN 0
            ELSE F[i - 1] + DictGet(VIOLATION_WEIGHTS, violations[i].event_type, 0)
    IN  F[Len(violations)]
        + (IF violations # <<>>
           THEN Min(violations[1].tab_switch_count * 15, 75) ELSE 0)

CalculateViolationDeduction(violations) ==
    IF Severity(violations) >= 100 THEN 2 ELSE 0

---------------------------------------------------------------------------
(* calculate_total_score *)

ZeroScores == [c \in Range(CompOrder) |-> 0]

\* the loop over the questions from the i-th on: the scores, or raised
\* (competency_scores[comp] and MARKS[comp] raise KeyError for a comp that is no
\* key of MARKS)
RECURSIVE GradeLoop(_, _, _, _)
GradeLoop(questions, correct, i, scores) ==
    IF i > Len(questions) THEN [raised |-> FALSE, scores |-> scores]
    ELSE IF questions[i].id \notin correct
    THEN GradeLoop(questions, correct, i + 1, scores)
    ELSE IF questions[i].competency_type \notin DOMAIN MARKS
    THEN [raised |-> TRUE, scores |-> scores]
    ELSE GradeLoop(questions, correct, i + 1,
                   [scores EXCEPT ![questions[i].competency_type] =
                        @ + MARKS[questions[i].competency_type]])

\* the comparison with the key inverted: marks for the answers that differ
GradeInverted(questions, correct) ==
    GradeLoop(questions, {questions[i].id : i \in DOMAIN questions} \ correct, 1,
              ZeroScores)

Grade(questions, correct) == GradeLoop(questions, correct, 1, ZeroScores)

\* competency_scores.items(), in the dict's (MARKS') order
Items(scores) == [i \in DOMAIN CompOrder |-> <<CompOrder[i], scores[CompOrder[i]]>>]

SumScores(scores) ==
    LET F[i \in 0..Len(CompOrder)] ==
            IF i = 0 THEN 0 ELSE F[i - 1] + scores[CompOrder[i]]
    IN  F[Len(CompOrder)]

\* the total calculate_total_score returns when the loop does not raise
TotalScore(questions, correct, violations) ==
    Max(0, SumScores(Grade(questions, correct).scores)
           - CalculateViolationDeduction(violations))

---------------------------------------------------------------------------
(* compute_improvement_priorities, recommend_courses *)

\* key=lambda x: x['priority_score']
PriorityScoreOf(ps) == [i \in DOMAIN ps |-> ps[i].priority_score]

\* priority_score in thousandths: round(gap * weight, 3)
ComputeImprovementPriorities(t, e) ==
    LET cs == FilterExam(t, e)
        priorities ==
            [i \in DOMAIN cs |->
                [competency_name |-> cs[i].competency_name,
                 percentage      |-> cs[i].percentage,
                 priority_score  |-> Max(0, 750 - cs[i].percentage)
                                     * DictGet(COMPETENCY_WEIGHTS, cs[i].competency_name, 0),
                 is_strength     |-> cs[i].is_strength,
                 is_weakness     |-> cs[i].is_weakness]]
    IN  SortDesc(priorities, PriorityScoreOf(priorities))

\* weak[:2] of recommend_courses, given the priorities
WeakSet(pr) ==
    LET weak == SelectSeq(pr, LAMBDA p : p.percentage < 600)
    IN  Take(IF weak = <<>> THEN LastN(pr, 2) ELSE weak, 2)

CoursesOf(catalog, cs) ==
    Dedup(Flatten([i \in DOMAIN cs |-> DictGet(catalog, cs[i].competency_name, <<>>)]))

RecommendCourses(t, e) ==
    LET comp_scores == SortDesc(FilterExam(t, e), PctOf(FilterExam(t, e)))
        pr == ComputeImprovementPriorities(t, e)
    IN  [priority_courses |-> CoursesOf(PRIORITY_COURSES, WeakSet(pr)),
         complementary_courses |->
            CoursesOf(COMPLEMENTARY_COURSES,
                      SelectSeq(comp_scores,
                                LAMBDA c : 500 <= c.percentage /\ c.percentage < 750)),
         advanced_courses |->
            CoursesOf(ADVANCED_COURSES,
                      SelectSeq(comp_scores, LAMBDA c : c.percentage >= 750))]

---------------------------------------------------------------------------
(* What a call returned *)

NoCourses == [priority_courses |-> <<>>, complementary_courses |-> <<>>,
              advanced_courses |-> <<>>]

\* op: the method called; raised: the exception it raised, or ""
Returned(op, raised, total, rank, percentile, courses) ==
    [op |-> op, raised |-> raised, total |-> total, rank |-> rank,
     percentile |-> percentile, courses |-> courses]

NoReturn == Returned("none", "", 0, 0, <<0, 0>>, NoCourses)

---------------------------------------------------------------------------
(* The scoring pipeline of one exam, one call at a time *)

\* a row of another exam, which no call of this service may touch
OtherRow == [NewScore(1, OtherExam, "technical", 48) EXCEPT !.is_strength = TRUE]

InitScoring ==
    /\ rows = <<OtherRow>>
    /\ nextId = 2
    /\ correctIds \in AnswerSets
    /\ events \in EventScenarios
    /\ lastWriter = "none"

MaxPk == 1 + MaxRuns * Len(CompOrder)

CalculateTotalScore ==
    /\ nextId + Len(CompOrder) <= MaxPk + 1
    /\ LET g == Grade(Questions, correctIds)
       IN  IF g.raised
           THEN /\ ret' = Returned("calculate_total_score", "KeyError", 0, 0, <<0, 0>>,
                                   NoCourses)
                /\ UNCHANGED <<rows, nextId, lastWriter>>
           ELSE /\ rows' = SaveCompetencyBreakdown(rows, nextId, TheExam, Items(g.scores))
                /\ nextId' = nextId + Len(CompOrder)
                /\ lastWriter' = "total"
                /\ ret' = Returned("calculate_total_score", "",
                                   TotalScore(Questions, correctIds, events),
                                   0, <<0, 0>>, NoCourses)
    /\ UNCHANGED <<correctIds, events, rankingVars, concVars>>

\* the marks of the exam's correct answers to the questions of competency c
RawMarks(c) == MARKS[c] * Cardinality(correctIds \cap TagIds(c))

\* save_competency_breakdown called with a dict of the first n competencies
SaveBreakdown(n) ==
    /\ nextId + n <= MaxPk + 1
    /\ rows' = SaveCompetencyBreakdown(rows, nextId, TheExam,
                    [i \in 1..n |-> <<CompOrder[i], RawMarks(CompOrder[i])>>])
    /\ nextId' = nextId + n
    /\ lastWriter' = "direct"
    /\ ret' = Returned("save_competency_breakdown", "", 0, 0, <<0, 0>>, NoCourses)
    /\ UNCHANGED <<correctIds, events, rankingVars, concVars>>

Recommend ==
    /\ ret' = Returned("recommend_courses", "", 0, 0, <<0, 0>>,
                       RecommendCourses(rows, TheExam))
    /\ UNCHANGED <<scoringVars, rankingVars, concVars>>

---------------------------------------------------------------------------
(* The Exam table and calculate_ranking *)

ExamIds == 1..NumExams

\* Exam.objects.filter(status="completed")
Completed(ex) == {e \in ExamIds : ex[e].status = "completed"}

\* order_by("-total_score", "-timestamp"): may row a come before row b
OrderedBeforeAscTs(a, b) ==
    \/ a.total_score > b.total_score
    \/ a.total_score = b.total_score /\ a.timestamp <= b.timestamp

OrderedBefore(a, b) ==
    \/ a.total_score > b.total_score
    \/ a.total_score = b.total_score /\ a.timestamp >= b.timestamp

\* the orders in which the database may return the completed exams: rows equal
\* in both keys come in either order
RankingOrders(ex) ==
    LET C == Completed(ex)
    IN  { o \in [1..Cardinality(C) -> C] :
            /\ \A i, j \in DOMAIN o : i # j => o[i] # o[j]
            /\ \A i, j \in DOMAIN o : i < j => OrderedBefore(ex[o[i]], ex[o[j]]) }

\* exam.percentile = ((total - rank) / total) * 100, as a fraction
Percentile(total, rank) == <<(total - rank) * 100, total>>

\* the table after the loop over enumerate(all_exams, start=1)
Ranked(ex, order) ==
    LET total == Len(order)
    IN  [e \in ExamIds |->
            IF e \in Range(order)
            THEN LET rank == CHOOSE i \in DOMAIN order : order[i] = e
                 IN  [ex[e] EXCEPT !.rank = rank,
                                   !.percentile = Percentile(total, rank)]
            ELSE ex[e]]

\* the Exam object a caller loads and hands to SimpleScoringService(exam)
LoadExam(ex, e) == [id |-> e, rank |-> ex[e].rank, percentile |-> ex[e].percentile]

\* the times of creation enumerated: an earlier and a later one
Timestamps == {1, 2}

\* no exam is completed or ranked yet; timestamp defaults to the time of
\* creation, so it does not decrease with the primary key
InitRanking ==
    /\ exams \in { ex \in [ExamIds -> [status : {"ongoing"}, total_score : {0},
                                        timestamp : Timestamps, rank : {0},
                                        percentile : {<<0, 0>>}]] :
                     \A a, b \in ExamIds : a < b => ex[a].timestamp <= ex[b].timestamp }
    /\ svcExam = LoadExam(exams, 1)

\* the division is evaluated before the loop
CalculateRankingEager ==
    /\ \E order \in RankingOrders(exams) :
         IF Len(order) = 0
         THEN /\ exams' = exams
              /\ ret' = Returned("calculate_ranking", "ZeroDivisionError", 0, 0,
                                 <<0, 0>>, NoCourses)
         ELSE /\ exams' = Ranked(exams, order)
              /\ ret' = Returned("calculate_ranking", "", 0, svcExam.rank,
                                 svcExam.percentile, NoCourses)
    /\ UNCHANGED <<scoringVars, svcExam, concVars>>

CalculateRanking ==
    /\ \E order \in RankingOrders(exams) :
         exams' = Ranked(exams, order)
    /\ ret' = Returned("calculate_ranking", "", 0, svcExam.rank, svcExam.percentile,
                       NoCourses)
    /\ UNCHANGED <<scoringVars, svcExam, concVars>>

\* the caller stores the total and completes the exam
FinishExam(e, score) ==
    /\ exams[e].status = "ongoing"
    /\ exams' = [exams EXCEPT ![e].status = "completed", ![e].total_score = score]
    /\ ret' = NoReturn
    /\ UNCHANGED <<scoringVars, svcExam, concVars>>

CancelExam(e) ==
    /\ exams[e].status = "ongoing"
    /\ exams' = [exams EXCEPT ![e].status = "cancelled"]
    /\ ret' = NoReturn
    /\ UNCHANGED <<scoringVars, svcExam, concVars>>

\* SimpleScoringService(exam) on the exam as it is stored now
NewService(e) ==
    /\ svcExam' = LoadExam(exams, e)
    /\ ret' = NoReturn
    /\ UNCHANGED <<scoringVars, exams, concVars>>

---------------------------------------------------------------------------
(* Two invocations of save_competency_breakdown for the same exam, each ORM
   call one statement of its own (no transaction spans them) *)

Procs == {1, 2}

Other(p) == IF p = 1 THEN 2 ELSE 1

Running(p) == pc[p] \notin {"idle", "done", "error"}

\* the answer sets of the concurrent runs: the same number missed of every tag
ConcurrentAnswerSets ==
    { a \in KnownAnswerSets :
        \E m \in 0..(MaxMissed + 1) : \A c \in Range(CompOrder) :
              Cardinality(a \cap TagIds(c)) =
                  IF m > MaxMissed THEN 0 ELSE Max(0, Cardinality(TagIds(c)) - m) }

InitConcurrent ==
    /\ pc = [p \in Procs |-> "idle"]
    /\ created = [p \in Procs |-> <<>>]
    /\ todo = [p \in Procs |-> <<>>]
    /\ overlapped = FALSE

\* a step of p while the other invocation is between its first and last statement
Interleaves(p) == overlapped' = (overlapped \/ Running(Other(p)))

\* CompetencyScore.objects.filter(exam=self.exam).delete()
DeleteStep(p) ==
    /\ pc[p] = "idle"
    /\ rows' = DeleteExam(rows, TheExam)
    /\ todo' = [todo EXCEPT ![p] =
                  [i \in DOMAIN CompOrder |-> <<CompOrder[i], RawMarks(CompOrder[i])>>]]
    /\ pc' = [pc EXCEPT ![p] = "create"]
    /\ Interleaves(p)
    /\ UNCHANGED <<nextId, correctIds, events, ret, lastWriter, exams, svcExam, created>>

\* one turn of the loop: CompetencyScore.objects.create(...)
CreateStep(p) ==
    /\ pc[p] = "create"
    /\ LET obj == NewScore(nextId, TheExam, Head(todo[p])[1], Head(todo[p])[2])
       IN  /\ rows' = InsertRow(rows, obj)
           /\ created' = [created EXCEPT ![p] = Append(@, obj)]
    /\ nextId' = nextId + 1
    /\ todo' = [todo EXCEPT ![p] = Tail(@)]
    /\ pc' = [pc EXCEPT ![p] = IF Len(todo[p]) = 1 THEN "identify" ELSE "create"]
    /\ Interleaves(p)
    /\ UNCHANGED <<correctIds, events, ret, lastWriter, exams, svcExam>>

\* identify_strengths_weaknesses: the sort and the .update(...) resetting the flags
ResetStep(p) ==
    /\ pc[p] = "identify"
    /\ rows' = ResetFlags(rows, TheExam)
    /\ todo' = [todo EXCEPT ![p] = Strengths(SortDesc(created[p], PctOf(created[p])))]
    /\ pc' = [pc EXCEPT ![p] = "strength"]
    /\ Interleaves(p)
    /\ UNCHANGED <<nextId, correctIds, events, ret, lastWriter, exams, svcExam, created>>

\* c.save(update_fields=[field]) of the next object: it raises DatabaseError when
\* the row is gone (the UPDATE affects no row)
SaveStep(p, at, field, next) ==
    /\ pc[p] = at
    /\ IF HasRow(rows, Head(todo[p]).id)
       THEN /\ rows' = SaveFlag(rows, Head(todo[p]).id, field)
            /\ IF Len(todo[p]) > 1
               THEN /\ todo' = [todo EXCEPT ![p] = Tail(@)]
                    /\ pc' = pc
               ELSE /\ todo' = [todo EXCEPT ![p] =
                                  IF next = "weakness"
                                  THEN Weaknesses(SortDesc(created[p], PctOf(created[p])))
                                  ELSE <<>>]
                    /\ pc' = [pc EXCEPT ![p] = next]
       ELSE /\ rows' = rows
            /\ todo' = [todo EXCEPT ![p] = <<>>]
            /\ pc' = [pc EXCEPT ![p] = "error"]
    /\ Interleaves(p)
    /\ UNCHANGED <<nextId, correctIds, events, ret, lastWriter, exams, svcExam, created>>

StrengthStep(p) == SaveStep(p, "strength", "is_strength", "weakness")

WeaknessStep(p) == SaveStep(p, "weakness", "is_weakness", "done")

---------------------------------------------------------------------------
(* Specifications *)

IdleScoring ==
    /\ rows = <<OtherRow>>
    /\ nextId = 2
    /\ correctIds = {}
    /\ events = <<>>
    /\ lastWriter = "none"

IdleRanking ==
    /\ exams = [e \in ExamIds |-> [status |-> "ongoing", total_score |-> 0,
                                   timestamp |-> 1, rank |-> 0,
                                   percentile |-> <<0, 0>>]]
    /\ svcExam = LoadExam(exams, 1)

\* the scoring pipeline of one exam, calls in sequence
Init == InitScoring /\ IdleRanking /\ InitConcurrent /\ ret = NoReturn

Next ==
    \/ CalculateTotalScore
    \/ Recommend

Spec == Init /\ [][Next]_vars

\* save_competency_breakdown called with dicts of 1 to 5 competencies
InitClassify ==
    /\ rows = <<OtherRow>>
    /\ nextId = 2
    /\ correctIds \in KnownAnswerSets
    /\ events = <<>>
    /\ lastWriter = "none"
    /\ IdleRanking /\ InitConcurrent /\ ret = NoReturn

NextClassify == \E n \in 1..Len(CompOrder) : SaveBreakdown(n)

SpecClassify == InitClassify /\ [][NextClassify]_vars

\* the ranking pass over the Exam table
InitRank == IdleScoring /\ InitRanking /\ InitConcurrent /\ ret = NoReturn

NextRank ==
    \/ CalculateRanking
    \/ \E e \in ExamIds, score \in 0..MaxScore : FinishExam(e, score)
    \/ \E e \in ExamIds : CancelExam(e)
    \/ \E e \in ExamIds : NewService(e)

SpecRank == InitRank /\ [][NextRank]_vars

\* two invocations of save_competency_breakdown, statement by statement
InitConc ==
    /\ rows = <<OtherRow>>
    /\ nextId = 2
    /\ correctIds \in ConcurrentAnswerSets
    /\ events = <<>>
    /\ lastWriter = "none"
    /\ IdleRanking /\ InitConcurrent /\ ret = NoReturn

NextConc ==
    \E p \in Procs :
        \/ DeleteStep(p)
        \/ CreateStep(p)
        \/ ResetStep(p)
        \/ StrengthStep(p)
        \/ WeaknessStep(p)

SpecConc == InitConc /\ [][NextConc]_vars

---------------------------------------------------------------------------
(* Properties of the classification *)

ExamRows == FilterExam(rows, TheExam)

Flagged(field) == {i \in DOMAIN ExamRows : ExamRows[i][field]}

C2_NoRowBothFlags ==
    (lastWriter = "total" /\ Len(ExamRows) >= 3) =>
        \A i \in DOMAIN ExamRows :
            ~(ExamRows[i].is_strength /\ ExamRows[i].is_weakness)

---------------------------------------------------------------------------
(* Properties of the scoring pipeline *)

\* a row without its primary key
Stored(r) ==
    [competency_name |-> r.competency_name, raw_score |-> r.raw_score,
     max_score |-> r.max_score, percentage |-> r.percentage,
     performance_level |-> r.performance_level,
     is_strength |-> r.is_strength, is_weakness |-> r.is_weakness]

\* the exam's stored CompetencyScore set
Content(t) ==
    LET er == FilterExam(t, TheExam) IN [i \in DOMAIN er |-> Stored(er[i])]

OneRowPerCompetency(t) ==
    LET er == FilterExam(t, TheExam)
    IN  [i \in DOMAIN er |-> er[i].competency_name] = CompOrder

\* C7: a run of calculate_total_score on an exam whose rows an earlier run on the
\* same questions, answers and violation events wrote leaves the same stored
\* set: one row per competency, equal in every field but the primary key.
C7_RerunIdempotent ==
    [][(lastWriter = "total" /\ ret'.op = "calculate_total_score"
            /\ ret'.raised = "" /\ nextId' > nextId) =>
        (Content(rows') = Content(rows) /\ OneRowPerCompetency(rows'))]_vars

\* the pipeline has run twice and the rows of the second run carry flags
C7_Witness ==
    /\ lastWriter = "total"
    /\ nextId = 2 + 2 * Len(CompOrder)
    /\ ret.op = "calculate_total_score"
    /\ OneRowPerCompetency(rows)
    /\ Flagged("is_strength") # {}

\* C9: calculate_total_score has no failure mode on question input: it returns a
\* total also when a question with an unknown or missing competency tag is
\* answered correctly.
C9_UnknownTagIgnored ==
    ret.op = "calculate_total_score" => ret.raised = ""

QuestionIds == {Questions[i].id : i \in DOMAIN Questions}

Returns(correct) == ~Grade(Questions, correct).raised

---------------------------------------------------------------------------
(* Properties of the recommendation *)

\* the sets of 2 rows (all rows, when fewer) that have the lowest percentages
LowestTwo ==
    { L \in SUBSET DOMAIN ExamRows :
        /\ Cardinality(L) = Min(2, Len(ExamRows))
        /\ \A i \in L, j \in DOMAIN ExamRows \ L :
              ExamRows[i].percentage <= ExamRows[j].percentage }

\* C8: when no competency of the exam is below 60, priority_courses are the
\* catalog "priority" entries of 2 competencies of lowest percentage.
C8_FallbackLowestTwo ==
    (ret.op = "recommend_courses" /\ ExamRows # <<>>
        /\ \A i \in DOMAIN ExamRows : ExamRows[i].percentage >= 600) =>
        \E L \in LowestTwo :
            Range(ret.courses.priority_courses) =
                UNION {Range(DictGet(PRIORITY_COURSES, ExamRows[i].competency_name, <<>>))
                       : i \in L}

---------------------------------------------------------------------------
(* Properties of the ranking pass *)

\* the stored fraction p is (total - rank) / total * 100
IsPercentile(p, total, rank) ==
    p[2] # 0 /\ p[1] * total = (total - rank) * 100 * p[2]

\* C3: after calculate_ranking the stored ranks of the N completed exams are
\* exactly 1..N, in order of total_score descending and, among equal totals, of
\* timestamp descending, and every stored percentile is (N - rank) / N * 100.
C3_RanksAndPercentiles ==
    ret.op = "calculate_ranking" =>
        LET C == Completed(exams)
            N == Cardinality(C)
        IN  /\ {exams[e].rank : e \in C} = 1..N
            /\ \A a, b \in C :
                  exams[a].rank < exams[b].rank =>
                      \/ exams[a].total_score > exams[b].total_score
                      \/ /\ exams[a].total_score = exams[b].total_score
                         /\ exams[a].timestamp >= exams[b].timestamp
            /\ \A e \in C : IsPercentile(exams[e].percentile, N, exams[e].rank)

\* a pass over 3 or more completed exams, two of them of equal total and
\* different timestamp, the more recent one ranked first
C3_Witness ==
    /\ ret.op = "calculate_ranking"
    /\ Cardinality(Completed(exams)) >= 3
    /\ \E a, b \in Completed(exams) :
          /\ exams[a].total_score = exams[b].total_score
          /\ exams[a].timestamp > exams[b].timestamp
          /\ exams[a].rank + 1 = exams[b].rank
    /\ \E a, b \in Completed(exams) : exams[a].total_score # exams[b].total_score

\* C4: when the exam under evaluation is in the completed cohort, the pair
\* calculate_ranking returns is the rank and percentile the pass has just
\* stored for that exam.
C4_ReturnsStoredRank ==
    (ret.op = "calculate_ranking" /\ svcExam.id \in Completed(exams)) =>
        /\ ret.rank = exams[svcExam.id].rank
        /\ ret.percentile = exams[svcExam.id].percentile

\* C5 as stated: with no completed exam calculate_ranking fails with a division
\* by zero.
C5_EmptyCohortRaises ==
    (ret.op = "calculate_ranking" /\ Completed(exams) = {}) =>
        ret.raised = "ZeroDivisionError"

\* C5 amended: with no completed exam calculate_ranking raises nothing, writes
\* nothing, and returns the rank and percentile its exam object holds.
C5_EmptyCohortReturns ==
    [][(ret'.op = "calculate_ranking" /\ Completed(exams) = {}) =>
        /\ ret'.raised = ""
        /\ ret'.rank = svcExam.rank
        /\ ret'.percentile = svcExam.percentile
        /\ exams' = exams]_vars

\* calculate_ranking has returned on an empty cohort
C5_Witness ==
    /\ ret.op = "calculate_ranking"
    /\ Completed(exams) = {}
    /\ \E e \in ExamIds : exams[e].status = "cancelled"

---------------------------------------------------------------------------
(* Properties of the concurrent invocations *)

\* exactly one row per competency, 2 strengths, 2 weaknesses
WellFormed ==
    /\ OneRowPerCompetency(rows)
    /\ Cardinality(Flagged("is_strength")) = 2
    /\ Cardinality(Flagged("is_weakness")) = 2

Duplicated ==
    \E i, j \in DOMAIN ExamRows :
        i # j /\ ExamRows[i].competency_name = ExamRows[j].competency_name

\* C6: two invocations of save_competency_breakdown for one exam can leave the
\* stored set duplicated or corrupted (C6_Witness is such an outcome), and only
\* by interleaving: as long as no statement of one ran between the first and the
\* last statement of the other, every invocation that ran has completed without
\* an error and left exactly one row per competency with 2 strengths and 2
\* weaknesses.
C6_CorruptionOnlyByInterleaving ==
    (/\ \A p \in Procs : ~Running(p)
     /\ \E p \in Procs : pc[p] # "idle"
     /\ ~overlapped) =>
        /\ WellFormed
        /\ \A p \in Procs : pc[p] # "error"

\* both invocations have completed and the exam holds two rows of a competency
\* or not 2 strengths and 2 weaknesses
C6_Witness ==
    /\ \A p \in Procs : pc[p] = "done"
    /\ overlapped
    /\ Duplicated
    /\ Cardinality(Flagged("is_strength")) # 2

=============================================================================
